---- MODULE Spec2Model ----
(***************************************************************************)
(* Model of convertobmp.py: conversion of photographs to 7-colour e-paper  *)
(* bitmaps.  Four specifications share the definitions below:              *)
(*   Spec       process_path over a small file tree (walker, per-file      *)
(*              conversion, error handling, output files);                 *)
(*   SpecImage  convert_image on one file whose decoded size is drawn from *)
(*              a set of widths and heights (orientation, resampling);     *)
(*   SpecQuant  the quantize call on a small canvas, pixel by pixel;       *)
(*   SpecCut    the same on a wide canvas padded above and below.          *)
(* Names and paths are sequences of character codes, so that suffix, stem, *)
(* lower() and the ordering of sorted() are computed, not assumed.         *)
(***************************************************************************)
EXTENDS Integers, Sequences, FiniteSets, TLC

VARIABLES disk, root, recursive, direction, mode, dither,
          pc, queue, idx, attempted, stderr, writes, last, exitStatus,
          qcfg, qpc, qx, qy, qcarry, qc0, qc1, qerr, qlast

runVars == <<disk, root, recursive, direction, mode, dither,
             pc, queue, idx, attempted, stderr, writes, last, exitStatus>>
quantVars == <<qcfg, qpc, qx, qy, qcarry, qc0, qc1, qerr, qlast>>
vars == <<runVars, quantVars>>

(***************************************************************************)
(* Program constants.                                                      *)
(***************************************************************************)
TargetLong == 800
TargetShort == 480
DITHER_NONE == 0
FLOYDSTEINBERG == 3
PalettePad == 249

(***************************************************************************)
(* Bounds of the model.                                                    *)
(***************************************************************************)
MaxDim == 6

(***************************************************************************)
(* Character codes and names.                                              *)
(***************************************************************************)
ExtJpg == <<46, 106, 112, 103>>
ExtJpeg == <<46, 106, 112, 101, 103>>
ExtPng == <<46, 112, 110, 103>>
ImageSuffixes == {ExtJpg, ExtJpeg, ExtPng}

N_a_png == <<97>> \o ExtPng
N_a_jpg == <<97>> \o ExtJpg
N_B_JPEG == <<66, 46, 74, 80, 69, 71>>
N_c_txt == <<99, 46, 116, 120, 116>>
N_hidden_png == ExtPng
N_s == <<115>>
N_s_t == <<115, 45, 116>>
N_e_png == <<101>> \o ExtPng
N_f_jpg == <<102>> \o ExtJpg
N_d_png == <<100>> \o ExtPng
N_g_jpeg == <<103>> \o ExtJpeg
N_a_scale_bmp == <<97, 95, 115, 99, 97, 108, 101, 95, 111, 117, 116, 112, 117, 116, 46, 98, 109, 112>>
N_nope == <<110, 111, 112, 101>>
N_fifo == <<102, 105, 102, 111>>

\* str.lower() on one character code (ASCII letters).
LowerChar(c) == IF c >= 65 /\ c <= 90 THEN c + 32 ELSE c

Lower(s) == [i \in 1..Len(s) |-> LowerChar(s[i])]

\* str.rfind('.'): the last index holding a dot, 0 when there is none
\* (indices are 1-based here, so Python's i is RFindDot - 1).
RFindDot(s) ==
    IF \E i \in 1..Len(s) : s[i] = 46
    THEN CHOOSE i \in 1..Len(s) : s[i] = 46 /\ \A j \in (i+1)..Len(s) : s[j] # 46
    ELSE 0

\* PurePath.suffix: name[i:] when 0 < i < len(name) - 1, else ''.
Suffix(name) ==
    LET d == RFindDot(name)
    IN  IF d > 1 /\ d < Len(name) THEN SubSeq(name, d, Len(name)) ELSE <<>>

\* PurePath.stem: name[:i] under the same condition, else the whole name.
Stem(name) ==
    LET d == RFindDot(name)
    IN  IF d > 1 /\ d < Len(name) THEN SubSeq(name, 1, d - 1) ELSE name

ModeChars(m) ==
    CASE m = "scale" -> <<115, 99, 97, 108, 101>>
      [] m = "cut" -> <<99, 117, 116>>
      [] OTHER -> <<98, 111, 103, 117, 115>>

\* f"{input_path.stem}_{mode}_output.bmp"
OutputFileName(name, m) ==
    Stem(name) \o <<95>> \o ModeChars(m)
               \o <<95, 111, 117, 116, 112, 117, 116, 46, 98, 109, 112>>

\* input_path.with_name(...): same parent, last component replaced.
OutputPath(p, m) ==
    SubSeq(p, 1, Len(p) - 1) \o <<OutputFileName(p[Len(p)], m)>>

\* Mutant: the suffix compared without lower().
HasImageSuffixCaseSensitive(p) == Suffix(p[Len(p)]) \in ImageSuffixes

\* path.suffix.lower() in ('.jpg', '.jpeg', '.png')
HasImageSuffix(p) == Lower(Suffix(p[Len(p)])) \in ImageSuffixes

(***************************************************************************)
(* Ordering used by sorted() on Path objects: the paths' component lists   *)
(* are compared lexicographically, each component by character code.       *)
(***************************************************************************)
StrLess(a, b) ==
    \E i \in 1..Len(b) :
        /\ i - 1 <= Len(a)
        /\ \A j \in 1..(i-1) : a[j] = b[j]
        /\ \/ i = Len(a) + 1
           \/ i <= Len(a) /\ a[i] < b[i]

PathLess(p, q) ==
    \E i \in 1..Len(q) :
        /\ i - 1 <= Len(p)
        /\ \A j \in 1..(i-1) : p[j] = q[j]
        /\ \/ i = Len(p) + 1
           \/ i <= Len(p) /\ StrLess(p[i], q[i])

RECURSIVE SortPaths(_)
SortPaths(S) ==
    IF S = {} THEN <<>>
    ELSE LET m == CHOOSE x \in S : \A y \in S \ {x} : PathLess(x, y)
         IN  <<m>> \o SortPaths(S \ {m})

(***************************************************************************)
(* Image geometry: orientation, ImageOps.fit, ImageOps.pad.                *)
(***************************************************************************)
\* Mutant: a square source taken for landscape.
TargetSizeGE(dir, width, height) ==
    IF dir = "landscape" THEN <<TargetLong, TargetShort>>
    ELSE IF dir = "portrait" THEN <<TargetShort, TargetLong>>
    ELSE IF width >= height THEN <<TargetLong, TargetShort>>
    ELSE <<TargetShort, TargetLong>>

\* convert_image, target dimensions.
TargetSize(dir, width, height) ==
    IF dir = "landscape" THEN <<TargetLong, TargetShort>>
    ELSE IF dir = "portrait" THEN <<TargetShort, TargetLong>>
    ELSE IF width > height THEN <<TargetLong, TargetShort>>
    ELSE <<TargetShort, TargetLong>>

\* Python round() of the rational n/d (n >= 0, d > 0): half to even.
RoundHalfEven(n, d) ==
    LET q == n \div d
        r == n % d
    IN  IF 2 * r < d THEN q
        ELSE IF 2 * r > d THEN q + 1
        ELSE IF q % 2 = 0 THEN q ELSE q + 1

\* ImageOps.contain: the size the source is resized to inside size <<tw, th>>.
\* The ratios are compared and the new side rounded in exact arithmetic; the
\* library does it in floating point, which can differ at exact halves only.
ContainSize(w, h, tw, th) ==
    IF w * th = tw * h THEN <<tw, th>>
    ELSE IF w * th > tw * h THEN <<tw, RoundHalfEven(h * tw, w)>>
    ELSE <<RoundHalfEven(w * th, h), th>>

\* Image.resize refuses an empty size ("height and width must be > 0").
ResizeOk(size) == size[1] >= 1 /\ size[2] >= 1

\* Mutant: the contained image returned without the canvas around it.
PadNoCanvas(w, h, tw, th) ==
    LET c == ContainSize(w, h, tw, th)
    IN  [ok |-> ResizeOk(c), size |-> c, box |-> <<0, 0, c[1], c[2]>>]

\* ImageOps.pad: canvas of the requested size, the contained image pasted
\* centred; box = <<x, y, width, height>> of the pasted content.
Pad(w, h, tw, th) ==
    LET c == ContainSize(w, h, tw, th)
    IN  IF ~ResizeOk(c) THEN [ok |-> FALSE, size |-> c, box |-> <<0, 0, 0, 0>>]
        ELSE IF c = <<tw, th>>
             THEN [ok |-> TRUE, size |-> c, box |-> <<0, 0, tw, th>>]
        ELSE IF c[1] # tw
             THEN [ok |-> TRUE, size |-> <<tw, th>>,
                   box |-> <<RoundHalfEven(tw - c[1], 2), 0, c[1], c[2]>>]
        ELSE [ok |-> TRUE, size |-> <<tw, th>>,
              box |-> <<0, RoundHalfEven(th - c[2], 2), c[1], c[2]>>]

\* ImageOps.fit: image.resize(size, method, box=crop); the whole canvas is
\* source content.
Fit(w, h, tw, th) ==
    [ok |-> TRUE, size |-> <<tw, th>>, box |-> <<0, 0, tw, th>>]

\* Mutant: no check of the mode, the last branch taken for any other value.
ModeKnownAny(m) == TRUE

\* The modes convert_image knows; any other raises ValueError("Unknown mode").
ModeKnown(m) == m = "scale" \/ m = "cut"

\* The strategy chosen by mode.
Resample(m, w, h, tw, th) ==
    IF m = "scale" THEN Fit(w, h, tw, th) ELSE Pad(w, h, tw, th)

\* quantize(...).convert('RGB') keeps the size of the image it is given.
QuantizedSize(size) == size

(***************************************************************************)
(* The file tree.  Directories and the special file are fixed; Init picks  *)
(* which of the optional files exist.  A file's image is what Image.open   *)
(* finds in it: a decodable picture of some size, or bytes that are no     *)
(* picture ("corrupt").                                                    *)
(***************************************************************************)
Dirs == {<<>>, <<N_s>>, <<N_s_t>>, <<N_d_png>>}
Specials == {<<N_fifo>>}

Image(w, h) == [kind |-> "img", w |-> w, h |-> h, from |-> <<>>]
Corrupt == [kind |-> "corrupt", w |-> 0, h |-> 0, from |-> <<>>]
Bitmap(w, h, src) == [kind |-> "bmp", w |-> w, h |-> h, from |-> src]

FixedFiles ==
    (<<N_c_txt>> :> Corrupt) @@ (<<N_hidden_png>> :> Image(10, 10))
    @@ (<<N_s_t, N_f_jpg>> :> Image(2000, 1))
    @@ (<<N_d_png, N_g_jpeg>> :> Image(300, 300))

OptionalFiles ==
    (<<N_a_png>> :> Image(1000, 500)) @@ (<<N_a_jpg>> :> Image(400, 900))
    @@ (<<N_B_JPEG>> :> Image(500, 500)) @@ (<<N_s, N_e_png>> :> Corrupt)
    @@ (<<N_a_scale_bmp>> :> Bitmap(1, 1, <<>>))

DiskOf(S) == [p \in S |-> OptionalFiles[p]] @@ FixedFiles

Roots == {<<>>, <<N_s>>, <<N_a_png>>, <<N_c_txt>>, <<N_nope>>, <<N_fifo>>}
Directions == {"none", "landscape", "portrait"}
Modes == {"scale", "cut", "bogus"}

IsFile(d, p) == p \in DOMAIN d
IsDir(p) == p \in Dirs

IsUnder(r, p) == Len(p) > Len(r) /\ SubSeq(p, 1, Len(r)) = r

\* path.glob('**/*' if recursive else '*'): every entry below the root, or the
\* entries directly in it.
Glob(d, r, rec) ==
    {p \in (DOMAIN d) \cup (Dirs \cup Specials) :
        IsUnder(r, p) /\ (rec \/ Len(p) = Len(r) + 1)}

(***************************************************************************)
(* convert_image: the whole call as one result.  saveOk is whether the     *)
(* file system accepts the write of the output file.                       *)
(***************************************************************************)
NoCall ==
    [path |-> <<>>, opened |-> FALSE, decoded |-> FALSE, resampled |-> FALSE,
     quantized |-> FALSE, saved |-> FALSE, ok |-> FALSE, err |-> "",
     width |-> 0, height |-> 0, target |-> <<0, 0>>, size |-> <<0, 0>>,
     out |-> <<>>]

ConvertImage(d, p, dir, m, saveOk) ==
    LET img == d[p]
        opened == [NoCall EXCEPT !.path = p, !.opened = TRUE]
    IN  IF img.kind # "img" THEN [opened EXCEPT !.err = "decode"]
        ELSE
        LET t == TargetSize(dir, img.w, img.h)
            dec == [opened EXCEPT !.decoded = TRUE, !.width = img.w,
                                  !.height = img.h, !.target = t]
        IN  IF ~ModeKnown(m) THEN [dec EXCEPT !.err = "mode"]
            ELSE
            LET r == Resample(m, img.w, img.h, t[1], t[2])
            IN  IF ~r.ok THEN [dec EXCEPT !.err = "resize"]
                ELSE
                LET q == [dec EXCEPT !.resampled = TRUE, !.quantized = TRUE,
                                     !.size = QuantizedSize(r.size)]
                IN  IF ~saveOk THEN [q EXCEPT !.err = "save"]
                    ELSE [q EXCEPT !.saved = TRUE, !.ok = TRUE,
                                   !.out = OutputPath(p, m)]

\* The effect of one convert_image call on the program's state.
Call(p, saveOk) ==
    LET r == ConvertImage(disk, p, direction, mode, saveOk)
    IN  /\ last' = r
        /\ attempted' = Append(attempted, p)
        /\ stderr' = IF r.ok THEN stderr ELSE Append(stderr, <<p, r.err>>)
        /\ writes' = IF r.ok THEN Append(writes, r.out) ELSE writes
        /\ disk' = IF r.ok
                   THEN [x \in (DOMAIN disk) \cup {r.out} |->
                           IF x = r.out THEN Bitmap(r.size[1], r.size[2], p)
                           ELSE disk[x]]
                   ELSE disk

(***************************************************************************)
(* process_path.                                                           *)
(***************************************************************************)
\* The root is a file: converted when its suffix matches, else nothing.
ProcessFile ==
    /\ pc = "start"
    /\ IsFile(disk, root)
    /\ IF HasImageSuffix(root)
       THEN \E saveOk \in BOOLEAN : Call(root, saveOk)
       ELSE UNCHANGED <<last, attempted, stderr, writes, disk>>
    /\ pc' = "done"
    /\ exitStatus' = 0
    /\ UNCHANGED <<root, recursive, direction, mode, dither, queue, idx>>
    /\ UNCHANGED quantVars

\* The root is a directory: sorted(path.glob(pattern)) is taken once.
StartDir ==
    /\ pc = "start"
    /\ ~IsFile(disk, root)
    /\ IsDir(root)
    /\ queue' = SortPaths(Glob(disk, root, recursive))
    /\ idx' = 1
    /\ pc' = "walk"
    /\ UNCHANGED <<disk, root, recursive, direction, mode, dither,
                   attempted, stderr, writes, last, exitStatus>>
    /\ UNCHANGED quantVars

\* Mutant: no try/except around the conversion, a failure ends the loop.
WalkConvertAbort ==
    /\ pc = "walk"
    /\ idx <= Len(queue)
    /\ IsFile(disk, queue[idx]) /\ HasImageSuffix(queue[idx])
    /\ \E saveOk \in BOOLEAN :
          /\ Call(queue[idx], saveOk)
          /\ IF ConvertImage(disk, queue[idx], direction, mode, saveOk).ok
             THEN idx' = idx + 1 /\ pc' = pc /\ exitStatus' = exitStatus
             ELSE idx' = idx /\ pc' = "done" /\ exitStatus' = 1
    /\ UNCHANGED <<root, recursive, direction, mode, dither, queue>>
    /\ UNCHANGED quantVars

\* One iteration of the loop on a regular file with an image suffix.
WalkConvert ==
    /\ pc = "walk"
    /\ idx <= Len(queue)
    /\ IsFile(disk, queue[idx]) /\ HasImageSuffix(queue[idx])
    /\ \E saveOk \in BOOLEAN : Call(queue[idx], saveOk)
    /\ idx' = idx + 1
    /\ UNCHANGED <<root, recursive, direction, mode, dither, pc, queue,
                   exitStatus>>
    /\ UNCHANGED quantVars

\* One iteration on anything else: a directory, a special file, another suffix.
WalkSkip ==
    /\ pc = "walk"
    /\ idx <= Len(queue)
    /\ ~(IsFile(disk, queue[idx]) /\ HasImageSuffix(queue[idx]))
    /\ idx' = idx + 1
    /\ UNCHANGED <<disk, root, recursive, direction, mode, dither, pc, queue,
                   attempted, stderr, writes, last, exitStatus>>
    /\ UNCHANGED quantVars

\* The loop is exhausted; main returns and the process exits with status 0.
WalkEnd ==
    /\ pc = "walk"
    /\ idx > Len(queue)
    /\ pc' = "done"
    /\ exitStatus' = 0
    /\ UNCHANGED <<disk, root, recursive, direction, mode, dither, queue, idx,
                   attempted, stderr, writes, last>>
    /\ UNCHANGED quantVars

\* Mutant: no else branch, an invalid root is passed over in silence.
InvalidRootSilent ==
    /\ pc = "start"
    /\ ~IsFile(disk, root)
    /\ ~IsDir(root)
    /\ pc' = "done"
    /\ exitStatus' = 0
    /\ UNCHANGED <<disk, root, recursive, direction, mode, dither, queue, idx,
                   attempted, stderr, writes, last>>
    /\ UNCHANGED quantVars

\* The root is neither a file nor a directory: one message, nothing else.
InvalidRoot ==
    /\ pc = "start"
    /\ ~IsFile(disk, root)
    /\ ~IsDir(root)
    /\ stderr' = Append(stderr, <<root, "invalid path">>)
    /\ pc' = "done"
    /\ exitStatus' = 0
    /\ UNCHANGED <<disk, root, recursive, direction, mode, dither, queue, idx,
                   attempted, writes, last>>
    /\ UNCHANGED quantVars

QuantIdle ==
    /\ qcfg = [tw |-> 0, th |-> 0, box |-> <<0, 0, 0, 0>>, dith |-> 0,
               samples |-> {}]
    /\ qpc = "idle"
    /\ qx = 0 /\ qy = 0
    /\ qcarry = <<0, 0, 0>> /\ qc0 = <<0, 0, 0>> /\ qc1 = <<0, 0, 0>>
    /\ qerr = <<>>
    /\ qlast = [x |-> -1, y |-> -1, in |-> <<0, 0, 0>>, val |-> <<0, 0, 0>>,
                idx |-> 0, rgb |-> <<0, 0, 0>>, border |-> FALSE]

RunStart ==
    /\ pc = "start"
    /\ queue = <<>> /\ idx = 0
    /\ attempted = <<>> /\ stderr = <<>> /\ writes = <<>>
    /\ last = NoCall
    /\ exitStatus = -1

Init ==
    /\ disk \in {DiskOf(S) : S \in SUBSET (DOMAIN OptionalFiles)}
    /\ root \in Roots
    /\ recursive \in BOOLEAN
    /\ direction \in Directions
    /\ mode \in Modes
    /\ dither = FLOYDSTEINBERG
    /\ RunStart
    /\ QuantIdle

Next ==
    \/ ProcessFile
    \/ StartDir
    \/ WalkConvert
    \/ WalkSkip
    \/ WalkEnd
    \/ InvalidRoot

Spec == Init /\ [][Next]_vars

(***************************************************************************)
(* convert_image on one file of any size in SrcDims x SrcDims.             *)
(***************************************************************************)
SrcDims == (1..MaxDim) \cup {400, 500, 900, 1000, 2000}
N_photo_jpg == <<112, 104, 111, 116, 111>> \o ExtJpg

InitImage ==
    /\ \E w \in SrcDims, h \in SrcDims : disk = (<<N_photo_jpg>> :> Image(w, h))
    /\ root = <<N_photo_jpg>>
    /\ recursive = FALSE
    /\ direction \in Directions
    /\ mode \in Modes
    /\ dither \in {DITHER_NONE, FLOYDSTEINBERG}
    /\ RunStart
    /\ QuantIdle

NextImage == ProcessFile

SpecImage == InitImage /\ [][NextImage]_vars

(***************************************************************************)
(* The quantizer: output_image.quantize(dither, palette).convert('RGB').    *)
(* quantize maps the RGB canvas to palette indices in raster order.  The    *)
(* nearest entry is looked up through a cache of 64 x 64 x 64 cells, one    *)
(* per 4 x 4 x 4 block of colours: a cell's entry is the entry nearest, in  *)
(* squared distance, to the cell's lowest corner, the first such entry in   *)
(* palette order.  With dithering the pixel's value is first shifted by the *)
(* error carried from the pixels before it (7/16 from the left, 1/16, 5/16  *)
(* and 3/16 from the row above) and clipped to 0..255.  For this palette    *)
(* the pre-selection of entries per 32-wide box changes no cell's entry.    *)
(* The canvas here is a scale model of the 800x480 one: MaxW x MaxH in      *)
(* SpecQuant, CutW x CutH in SpecCut.                                       *)
(***************************************************************************)
MaxW == 2
MaxH == 2
CutW == 9
CutH == 3

Black == <<0, 0, 0>>
White == <<255, 255, 255>>
Yellow == <<255, 255, 0>>
Red == <<255, 0, 0>>
Blue == <<0, 0, 255>>
Green == <<0, 255, 0>>

\* Mutant: the spare slot 4 filled with the orange of other 7-colour panels.
EPAPER_PALETTE_Orange(i) ==
    CASE i = 0 -> Black
      [] i = 1 -> White
      [] i = 2 -> Yellow
      [] i = 3 -> Red
      [] i = 4 -> <<255, 128, 0>>
      [] i = 5 -> Blue
      [] i = 6 -> Green
      [] OTHER -> Black

\* EPAPER_PALETTE: seven entries, then black up to 256 entries.
EPAPER_PALETTE(i) ==
    CASE i = 0 -> Black
      [] i = 1 -> White
      [] i = 2 -> Yellow
      [] i = 3 -> Red
      [] i = 4 -> Black
      [] i = 5 -> Blue
      [] i = 6 -> Green
      [] OTHER -> Black

PaletteSize == 7 + PalettePad

\* The palette as putpalette stores it, and the colours it holds.
Palette == [i \in 0..(PaletteSize - 1) |-> EPAPER_PALETTE(i)]
PaletteColours == {Palette[i] : i \in DOMAIN Palette}

Sq(a) == a * a

\* Squared distance of two colours.
Dist(c, e) == Sq(c[1] - e[1]) + Sq(c[2] - e[2]) + Sq(c[3] - e[3])

\* The scan over the palette, index 0 upward: an entry replaces the best so
\* far only when it is strictly nearer, so the result is the first index
\* whose colour attains the least distance found in the palette.
Scan(c) ==
    LET ds == {Dist(c, e) : e \in PaletteColours}
        least == CHOOSE d \in ds : \A d2 \in ds : d <= d2
    IN  CHOOSE i \in DOMAIN Palette :
            /\ Dist(c, Palette[i]) = least
            /\ \A j \in 0..(i - 1) : Dist(c, Palette[j]) # least

\* The lowest corner of the cache cell of a colour: (r >> 2, g >> 2, b >> 2).
CacheCell(v) == <<(v[1] \div 4) * 4, (v[2] \div 4) * 4, (v[3] \div 4) * 4>>

\* The palette index the cache gives for a colour.
CacheLookup(v) == Scan(CacheCell(v))

\* convert('RGB') of a palette image: the entry of the index.
ToRGB(i) == Palette[i]

Clip8(a) == IF a < 0 THEN 0 ELSE IF a > 255 THEN 255 ELSE a

\* C integer division by 16, truncating toward zero.
Div16(a) == IF a < 0 THEN -((-a) \div 16) ELSE a \div 16

Zero3 == <<0, 0, 0>>

\* Whether pixel (x, y) lies outside the pasted content.
InBorder(box, x, y) ==
    ~(x >= box[1] /\ x < box[1] + box[3] /\ y >= box[2] /\ y < box[2] + box[4])

\* The values a content pixel may have after resampling.
Samples == {<<0, 130, 129>>, <<100, 100, 100>>, <<250, 140, 10>>}
CutSamples == {<<181, 185, 255>>, <<187, 179, 255>>}

\* One pixel of the raster scan with input colour c.  qerr holds, per column,
\* the error for the next row; slot qx + 2 is the one of the pixel itself.
\* At the end of a row the slot of the last column is written from the
\* accumulators of the blue channel alone (e[0] = b0; e[1] = b1; e[2] = b2).
QuantizeStep(c) ==
    LET w == qcfg.tw
        dithered == qcfg.dith # DITHER_NONE
        v == IF dithered
             THEN [k \in 1..3 |-> Clip8(c[k] + Div16(qcarry[k] + qerr[qx + 2][k]))]
             ELSE c
        i == CacheLookup(v)
        e == [k \in 1..3 |-> v[k] - Palette[i][k]]
        below == [k \in 1..3 |-> 3 * e[k] + qc0[k]]
        c0n == [k \in 1..3 |-> 5 * e[k] + qc1[k]]
        rowEnd == qx = w - 1
    IN  /\ qlast' = [x |-> qx, y |-> qy, in |-> c, val |-> v, idx |-> i,
                     rgb |-> ToRGB(i),
                     border |-> InBorder(qcfg.box, qx, qy)]
        /\ IF dithered
           THEN /\ qerr' = IF rowEnd
                           THEN [qerr EXCEPT ![qx + 1] = below,
                                             ![w + 1] = <<c0n[3], e[3], e[3]>>]
                           ELSE [qerr EXCEPT ![qx + 1] = below]
                /\ qcarry' = IF rowEnd THEN Zero3 ELSE [k \in 1..3 |-> 7 * e[k]]
                /\ qc0' = IF rowEnd THEN Zero3 ELSE c0n
                /\ qc1' = IF rowEnd THEN Zero3 ELSE e
           ELSE UNCHANGED <<qerr, qcarry, qc0, qc1>>
        /\ qx' = IF rowEnd THEN 0 ELSE qx + 1
        /\ qy' = IF rowEnd THEN qy + 1 ELSE qy
        /\ qpc' = IF rowEnd /\ qy = qcfg.th - 1 THEN "done" ELSE "run"
        /\ UNCHANGED qcfg
        /\ UNCHANGED runVars

\* A pixel of the source content: any of the sample colours.
ContentPixel ==
    /\ qpc = "run"
    /\ ~InBorder(qcfg.box, qx, qy)
    /\ \E c \in qcfg.samples : QuantizeStep(c)

\* A pixel of the white border that pad put around the content.
BorderPixel ==
    /\ qpc = "run"
    /\ InBorder(qcfg.box, qx, qy)
    /\ QuantizeStep(White)

RunIdle ==
    /\ disk = <<>> /\ root = <<>> /\ recursive = FALSE
    /\ direction = "none" /\ mode \in {"scale", "cut"}
    /\ dither \in {DITHER_NONE, FLOYDSTEINBERG}
    /\ pc = "quantize"
    /\ queue = <<>> /\ idx = 0
    /\ attempted = <<>> /\ stderr = <<>> /\ writes = <<>>
    /\ last = NoCall
    /\ exitStatus = -1

\* The canvas quantize is given: size <<tw, th>> from a source of w x h.
QuantStart(w, h, tw, th, samples) ==
    /\ Resample(mode, w, h, tw, th).ok
    /\ qcfg = [tw |-> tw, th |-> th,
               box |-> Resample(mode, w, h, tw, th).box,
               dith |-> dither, samples |-> samples]
    /\ qpc = "run"
    /\ qx = 0 /\ qy = 0
    /\ qcarry = Zero3 /\ qc0 = Zero3 /\ qc1 = Zero3
    /\ qerr = [s \in 1..(tw + 1) |-> Zero3]
    /\ qlast = [x |-> -1, y |-> -1, in |-> Zero3, val |-> Zero3, idx |-> 0,
                rgb |-> Zero3, border |-> FALSE]

InitQuant ==
    /\ RunIdle
    /\ \E w \in 1..MaxW, h \in 1..MaxH : QuantStart(w, h, MaxW, MaxH, Samples)

NextQuant ==
    \/ ContentPixel
    \/ BorderPixel

SpecQuant == InitQuant /\ [][NextQuant]_vars

\* A wide source padded above and below, dithered.
InitCut ==
    /\ RunIdle
    /\ mode = "cut"
    /\ QuantStart(CutW, 1, CutW, CutH, CutSamples)

SpecCut == InitCut /\ [][NextQuant]_vars

(***************************************************************************)
(* Properties of the run and of one conversion.                            *)
(***************************************************************************)
\* The names of the tree that end in .jpg, .jpeg or .png in any letter case.
MatchingNames ==
    {N_a_png, N_a_jpg, N_B_JPEG, N_e_png, N_f_jpg, N_g_jpeg, N_photo_jpg}

\* Lexicographic order of two paths, component by component.
RECURSIVE ComponentOrder(_, _)
ComponentOrder(p, q) ==
    IF Len(q) = 0 THEN FALSE
    ELSE IF Len(p) = 0 THEN TRUE
    ELSE IF p[1] = q[1] THEN ComponentOrder(Tail(p), Tail(q))
    ELSE StrLess(p[1], q[1])

\* The regular files below the root that the walker is to hand over.
Wanted ==
    {p \in DOMAIN disk :
        /\ Len(p) > Len(root)
        /\ \A i \in 1..Len(root) : p[i] = root[i]
        /\ recursive \/ Len(p) = Len(root) + 1
        /\ p[Len(p)] \in MatchingNames}

RootIsDir == root \in {<<>>, <<N_s>>}
RootIsFile == root \in DOMAIN disk

Range(f) == {f[i] : i \in DOMAIN f}

RECURSIVE SelectWanted(_)
SelectWanted(q) ==
    IF q = <<>> THEN <<>>
    ELSE IF q[1] \in DOMAIN disk /\ q[1][Len(q[1])] \in MatchingNames
         THEN <<q[1]>> \o SelectWanted(Tail(q))
         ELSE SelectWanted(Tail(q))

\* C1: the target size is (800,480) for override landscape, (480,800) for
\* override portrait, and without override (800,480) when width > height and
\* (480,800) otherwise, equal sides included; the mode plays no part.
C1_OrientationResolution ==
    last.decoded =>
        /\ direction = "landscape" => last.target = <<800, 480>>
        /\ direction = "portrait" => last.target = <<480, 800>>
        /\ (direction = "none" /\ last.width > last.height)
              => last.target = <<800, 480>>
        /\ (direction = "none" /\ last.width <= last.height)
              => last.target = <<480, 800>>

C1_Witness ==
    /\ last.decoded
    /\ direction = "none"
    /\ last.width = last.height
    /\ mode = "cut"
    /\ last.target = <<480, 800>>

\* C3: the image written by convert_image has exactly the size of the resolved
\* target, 800x480 or 480x800, whatever the source size, mode, override and
\* dithering mode.
C3_OutputSizeIsTarget ==
    last.saved =>
        /\ last.size = last.target
        /\ last.size \in {<<800, 480>>, <<480, 800>>}
        /\ disk[last.out].kind = "bmp"
        /\ <<disk[last.out].w, disk[last.out].h>> = last.target

C3_Witness ==
    /\ last.saved
    /\ mode = "cut"
    /\ last.width = 5 /\ last.height = 2
    /\ dither = DITHER_NONE
    /\ last.size = <<800, 480>>

\* C4: for a directory root the files handed to convert_image are exactly the
\* regular files with suffix .jpg, .jpeg or .png in any letter case, at depth 1
\* or, when recursive, at any depth, in lexicographic order of their paths; a
\* root that is a file is converted if and only if its suffix matches.
C4_WalkerSelection ==
    /\ Range(attempted) \subseteq Wanted \cup {root}
    /\ \A i, j \in 1..Len(attempted) :
          i < j => ComponentOrder(attempted[i], attempted[j])
    /\ (pc = "done" /\ RootIsDir) => Range(attempted) = Wanted
    /\ (pc = "done" /\ RootIsFile) =>
          attempted = IF root[Len(root)] \in MatchingNames
                      THEN <<root>> ELSE <<>>

C4_Witness ==
    /\ pc = "done"
    /\ root = <<>>
    /\ recursive
    /\ attempted = <<<<N_B_JPEG>>, <<N_a_jpg>>, <<N_a_png>>,
                     <<N_d_png, N_g_jpeg>>, <<N_s, N_e_png>>,
                     <<N_s_t, N_f_jpg>>>>

\* C5 (state part): every candidate of the walk so far has been attempted
\* once, in the walker's order, a failure is reported for its own file only,
\* and a finished run has attempted every candidate and exits with status 0.
C5_Progress ==
    /\ pc = "walk" => attempted = SelectWanted(SubSeq(queue, 1, idx - 1))
    /\ (pc = "done" /\ RootIsDir) => attempted = SelectWanted(queue)
    /\ \A i, j \in 1..Len(attempted) : i # j => attempted[i] # attempted[j]
    /\ \A i, j \in 1..Len(stderr) : i # j => stderr[i][1] # stderr[j][1]
    /\ (pc # "start" /\ (RootIsDir \/ RootIsFile)) =>
          /\ \A i \in 1..Len(stderr) : stderr[i][1] \in Range(attempted)
          /\ Len(stderr) + Len(writes) = Len(attempted)
    /\ (last.path # <<>> /\ ~last.ok) =>
          stderr[Len(stderr)] = <<last.path, last.err>>
    /\ pc = "done" => exitStatus = 0

\* The position of the run: it grows with every step and is bounded by the
\* length of the walker's list.
C5_Rank ==
    IF pc = "start" THEN 0
    ELSE IF pc = "walk" THEN idx
    ELSE Len(queue) + 2

\* C5: in a run over a directory a failure of one file is reported for that
\* file only and does not end the run; every candidate is attempted exactly
\* once in sorted order whatever happened before it, none is retried, and the
\* run always ends, with success: the loop index stays within the walker's
\* list, every step moves the run forward, and the run is bounded by the
\* length of that list.
C5_BatchContinuation ==
    /\ [](C5_Progress /\ (pc = "walk" => idx \in 1..(Len(queue) + 1)))
    /\ [][C5_Rank' > C5_Rank /\ C5_Rank' <= Len(queue') + 2]_vars

C5_Witness ==
    /\ pc = "done"
    /\ Len(attempted) >= 4
    /\ Len(stderr) >= 2
    /\ stderr[1][1] = attempted[1]
    /\ last.ok
    /\ last.path = attempted[Len(attempted)]

\* C6 as stated: a mode outside {scale, cut} fails before any image I/O, the
\* source file neither opened nor decoded, and no output written.
C6_FailsBeforeAnyIO ==
    (last.path # <<>> /\ mode \notin {"scale", "cut"}) =>
        /\ ~last.ok
        /\ ~last.opened /\ ~last.decoded
        /\ ~last.saved /\ writes = <<>>

\* C6 amended: a mode outside {scale, cut} fails at strategy selection, after
\* the source was opened and decoded (an undecodable source fails with its
\* decode error), before any resampling, quantization or output; no output
\* file is written or modified.
C6_FailsAtStrategySelection ==
    (last.path # <<>> /\ mode \notin {"scale", "cut"}) =>
        /\ ~last.ok
        /\ last.opened
        /\ last.err = IF last.decoded THEN "mode" ELSE "decode"
        /\ ~last.resampled /\ ~last.quantized /\ ~last.saved
        /\ writes = <<>>
        /\ \A p \in DOMAIN disk : disk[p].from = <<>>
        /\ stderr[Len(stderr)] = <<last.path, last.err>>

C6_Witness ==
    /\ mode = "bogus"
    /\ last.path = <<N_a_png>>
    /\ last.decoded
    /\ last.err = "mode"
    /\ Len(attempted) >= 2

\* C7: a root that does not exist or is neither file nor directory gives one
\* error naming the path; convert_image is never called, no file is created
\* or modified, and the run completes.
C7_InvalidRoot ==
    (pc = "done" /\ ~RootIsFile /\ ~RootIsDir) =>
        /\ stderr = << <<root, "invalid path">> >>
        /\ attempted = <<>>
        /\ last = NoCall
        /\ writes = <<>>
        /\ \A p \in DOMAIN disk : disk[p].from = <<>>
        /\ exitStatus = 0

C7_Witness ==
    /\ pc = "done"
    /\ root = <<N_fifo>>
    /\ Len(stderr) = 1

\* C8: each successful conversion writes one file, <stem>_<mode>_output.bmp
\* beside its input, and over a run no output path is written for two
\* different inputs: every converted input keeps an output of its own.
C8_OneOutputPerInput ==
    /\ last.ok =>
          /\ last.out = writes[Len(writes)]
          /\ disk[last.out].from = last.path
          /\ Len(last.out) = Len(last.path)
          /\ \A i \in 1..(Len(last.path) - 1) : last.out[i] = last.path[i]
          /\ (last.path = <<N_a_png>> /\ mode = "scale")
                => last.out = <<N_a_scale_bmp>>
    /\ \A i, j \in 1..Len(writes) : i # j => writes[i] # writes[j]
    /\ Cardinality({p \in DOMAIN disk : disk[p].from # <<>>}) = Len(writes)

(***************************************************************************)
(* Properties of the quantizer, stated on the pixel just written: every    *)
(* pixel of the output is the pixel just written in one state of the scan. *)
(***************************************************************************)
\* The seven palette entries in the order of the table.
SevenColours ==
    <<<<0, 0, 0>>, <<255, 255, 255>>, <<255, 255, 0>>, <<255, 0, 0>>,
      <<0, 0, 0>>, <<0, 0, 255>>, <<0, 255, 0>>>>

SqDistance(c, e) ==
    (c[1] - e[1]) * (c[1] - e[1]) + (c[2] - e[2]) * (c[2] - e[2])
    + (c[3] - e[3]) * (c[3] - e[3])

\* The index (from 0) of the palette colour nearest to c, the lowest index
\* among equally near ones.
NearestLowestIndex(c) ==
    CHOOSE i \in 0..6 :
        \A j \in 0..6 :
            \/ SqDistance(c, SevenColours[i + 1]) < SqDistance(c, SevenColours[j + 1])
            \/ /\ SqDistance(c, SevenColours[i + 1]) = SqDistance(c, SevenColours[j + 1])
               /\ i <= j

\* C2: every pixel of the quantized output is one of black, white, yellow,
\* red, blue, green, in both dithering modes, also after error accumulation
\* and clamping.
C2_OutputInPalette ==
    qlast.x >= 0 =>
        qlast.rgb \in {<<0, 0, 0>>, <<255, 255, 255>>, <<255, 255, 0>>,
                       <<255, 0, 0>>, <<0, 0, 255>>, <<0, 255, 0>>}

C2_Witness ==
    /\ qcfg.dith = FLOYDSTEINBERG
    /\ qlast.x = 1 /\ qlast.y = 1
    /\ qlast.val # qlast.in
    /\ qlast.val[1] = 255
    /\ qlast.rgb = <<255, 255, 0>>

\* C9: in cut mode every pixel of the white border around the content is the
\* palette's white in the quantized output, in both dithering modes.
C9_BorderStaysWhite ==
    (qlast.x >= 0 /\ qlast.border) => qlast.rgb = <<255, 255, 255>>

\* C10: without dithering each output pixel is the palette colour nearest to
\* the input pixel at its position in squared distance, the lowest index
\* among equally near ones, never index 4 nor one of the indices 7..255.
C10_NearestPerPixel ==
    (qlast.x >= 0 /\ qcfg.dith = DITHER_NONE) =>
        /\ qlast.idx = NearestLowestIndex(qlast.in)
        /\ qlast.idx \in {0, 1, 2, 3, 5, 6}
        /\ qlast.rgb = SevenColours[qlast.idx + 1]

====
